---- MODULE Spec2Model ----
(***************************************************************************)
(* Model of shaladdle/robust-transfer: the resumable stop-and-wait file    *)
(* transfer (client send / retry loop Send, server recv / Serve) and the   *)
(* client daemon (director, submission endpoint).                          *)
(*                                                                         *)
(* File contents are symbolic: the bytes read from a source file are a     *)
(* chunk [src, off, len] naming the file, the offset of the first byte     *)
(* and the number of bytes.  Two chunks denote the same bytes for every    *)
(* content of the source files exactly when they are equal.               *)
(***************************************************************************)
EXTENDS Integers, Sequences, FiniteSets, TLC

(* ------------------------------------------------------------------ *)
(* Program constants                                                  *)
(* ------------------------------------------------------------------ *)
payloadSize == 4096
maxRetryTime == 20000
initRetryTime == 200

ErrSuccess == 0
ErrAlreadyExists == 1
ErrEmptyFilename == 2
ErrWrongFile == 3
ErrOpen == 4

(* ------------------------------------------------------------------ *)
(* Bounds of the model                                                *)
(* ------------------------------------------------------------------ *)
MaxBlocks == 2
MaxFiles == 2
MaxCrashes == 1
MaxBreaks == 1
MaxDialFails == 1
MaxProbes == 2
MaxSubmits == 3
MaxWriteFails == 1
MaxStops == 2
TailLen == 12

\* The client-side files, in the order the tests create them.
PathSeq == <<"p1", "p2", "p3", "p4">>

Paths == {PathSeq[i] : i \in DOMAIN PathSeq}

\* info.Name(): the basename of a path.
BaseName(p) ==
  CASE p = "p1" -> "a"
    [] p = "p2" -> "b"
    [] p = "p3" -> "c"
    [] p = "p4" -> "d"
    [] OTHER -> ""

\* A name whose directory does not exist under the archive directory.
BadDirName == "nodir/f"

Names == {"", "a", "b", "c", "d", BadDirName}

\* The names a peer on the server port offers.
PeerNames == {"", "a", "b", BadDirName}

Sizes == {k * payloadSize : k \in 0..MaxBlocks}
           \cup {k * payloadSize + TailLen : k \in 0..(MaxBlocks - 1)}


Range(f) == {f[i] : i \in DOMAIN f}

Min(x, y) == IF x < y THEN x ELSE y
Max(x, y) == IF x > y THEN x ELSE y

(* ------------------------------------------------------------------ *)
(* Pure functions of the transfer engine                              *)
(* ------------------------------------------------------------------ *)
getNumBlocksRoundUp(size) == (size \div payloadSize) + 1

getNumBlocks(size) ==
  IF size % payloadSize # 0 THEN (size \div payloadSize) + 1
                            ELSE size \div payloadSize

getFilePosNext(seqNum) == (seqNum + 1) * payloadSize

getFilePos(seqNum) == seqNum * payloadSize

(* ------------------------------------------------------------------ *)
(* Messages                                                           *)
(* ------------------------------------------------------------------ *)
NoData == [src |-> "", off |-> 0, len |-> 0]

startMessage(name, size) ==
  [type |-> "start", name |-> name, size |-> size, seqNum |-> 0,
   errType |-> ErrSuccess, data |-> NoData]

ackMessageZero(name, seqNum, size, errType) ==
  [type |-> "ack", name |-> name, size |-> size, seqNum |-> 0,
   errType |-> errType, data |-> NoData]

ackMessage(name, seqNum, size, errType) ==
  [type |-> "ack", name |-> name, size |-> size, seqNum |-> seqNum,
   errType |-> errType, data |-> NoData]

dataMessage(seqNum, data) ==
  [type |-> "data", name |-> "", size |-> 0, seqNum |-> seqNum,
   errType |-> ErrSuccess, data |-> data]

dataAckMessage(seqNum) ==
  [type |-> "dataAck", name |-> "", size |-> 0, seqNum |-> seqNum,
   errType |-> ErrSuccess, data |-> NoData]

NoMsg ==
  [type |-> "none", name |-> "", size |-> 0, seqNum |-> 0,
   errType |-> ErrSuccess, data |-> NoData]

\* The StartOffers a peer on the server port sends: its own file of the
\* first file's name has MaxBlocks full blocks, its other files one short
\* block.
PeerOffers ==
  {startMessage(n, IF n = BaseName(PathSeq[1]) THEN MaxBlocks * payloadSize
                                               ELSE TailLen) : n \in PeerNames}

(* ------------------------------------------------------------------ *)
(* State                                                              *)
(* ------------------------------------------------------------------ *)
VARIABLES
  fsize,     \* size of each client-side source file
  todo,      \* transferTest: the files still to be passed to Send
  cli,       \* the goroutine running Send / send
  conns,     \* the TCP connections to the server
  backlog,   \* connections dialed and not yet accepted by the server
  srv,       \* the server: Serve / recv position and transfer state
  archive,   \* the files of the archive directory
  fail,      \* the failures the environment may still cause
  peer,      \* a peer that talks to the server port directly
  dmn        \* the daemon: director, submission endpoint, Stop

vars == <<fsize, todo, cli, conns, backlog, srv, archive, fail, peer, dmn>>

\* One connection for the running session and one for every session that
\* a failure or a peer may leave behind for the server.
ConnIds == 1..(1 + MaxCrashes + MaxBreaks + MaxProbes)

FreeConn == [st |-> "free", c2s |-> <<>>, s2c |-> <<>>, cliEnd |-> FALSE, srvEnd |-> FALSE]

\* A connection neither end refers to any more is forgotten.
Release(c) == IF ~c.cliEnd /\ ~c.srvEnd THEN FreeConn ELSE c

\* A file of the archive directory: its size and the extents written to it.
NoFile == [exists |-> FALSE, size |-> 0, ext |-> {}]
EmptyFile == [exists |-> TRUE, size |-> 0, ext |-> {}]

IdleClient ==
  [pc |-> "idle", fpath |-> "", conn |-> 0, retryTime |-> initRetryTime,
   wait |-> 0, seqNum |-> 0, fpos |-> 0, emitted |-> <<>>]

IdleServer ==
  [pc |-> "accept", conn |-> 0, name |-> "", size |-> 0, seqNum |-> 0,
   listening |-> TRUE,
   ret |-> "none", offer |-> NoMsg, reply |-> NoMsg, acked |-> {},
   written |-> {}, started |-> <<>>, finished |-> <<>>]

IdlePeer == [pc |-> "idle", conn |-> 0, left |-> MaxProbes, resized |-> FALSE]

\* The calls of daemon.Stop, each by a goroutine of its own.
StopIds == 1..MaxStops

\* NewDaemon: the daemon before Serve is called.
NewDaemon ==
  [servePc |-> "init", dirPc |-> "init", queue |-> <<>>, lbacklog |-> <<>>,
   handler |-> "", uploaders |-> 0, submitted |-> <<>>, uploaded |-> <<>>,
   open |-> FALSE, stopped |-> FALSE, stops |-> [i \in StopIds |-> "idle"]]

(* ------------------------------------------------------------------ *)
(* Client: Send (retry loop) and send (one session)                   *)
(* ------------------------------------------------------------------ *)

\* Send: retryTime := 200ms, then the for loop starts with Dial.
StartSend(p) ==
  [IdleClient EXCEPT !.pc = "dial", !.fpath = p]

\* cleanup: retryTime doubles while it is below maxRetryTime.
NextRetryTime(t) == IF t < maxRetryTime THEN t * 2 ELSE t

\* cleanup(conn); continue: the connection is closed, the goroutine sleeps
\* for the retryTime the call started with, the backoff grows and the loop
\* dials again.
AfterCleanup(c) ==
  [c EXCEPT !.pc = "dial", !.conn = 0, !.seqNum = 0, !.fpos = 0,
            !.wait = c.retryTime,
            !.retryTime = NextRetryTime(c.retryTime)]

ClosedByClient(k) ==
  Release([k EXCEPT !.st = "closed", !.cliEnd = FALSE, !.s2c = <<>>])

\* send returned an error: Send logs it and runs cleanup(conn).
ClientSessionError ==
  /\ cli' = AfterCleanup(cli)
  /\ conns' = [conns EXCEPT ![cli.conn] = ClosedByClient(@)]

\* f.Read(dataMsg.Data) at file offset fpos of a file of n bytes: the bytes
\* read, none at end of file.
ReadBlock(p, fpos, n) ==
  IF fpos >= n THEN [src |-> p, off |-> fpos, len |-> 0]
               ELSE [src |-> p, off |-> fpos, len |-> Min(payloadSize, n - fpos)]

\* Where the first read of a session starts: os.Open leaves the offset at 0.
OpenOffset(seqNum) == 0

\* dialer.Dial() succeeds: a new connection, queued at the listener.
ClientDial ==
  /\ cli.pc = "dial"
  /\ srv.listening
  /\ \E c \in ConnIds :
       /\ conns[c].st = "free"
       /\ \A d \in ConnIds : conns[d].st = "free" => c <= d
       /\ conns' = [conns EXCEPT ![c] =
                      [st |-> "open", c2s |-> <<>>, s2c |-> <<>>,
                       cliEnd |-> TRUE, srvEnd |-> TRUE]]
       /\ backlog' = Append(backlog, c)
       /\ cli' = [cli EXCEPT !.pc = "sendStart", !.conn = c]
  /\ UNCHANGED <<fsize, fail, peer, dmn, todo, srv, archive>>

\* send: os.Stat, notifier.SendStart(), enc.Encode(startMsg).
ClientSendStart ==
  /\ cli.pc = "sendStart"
  /\ IF conns[cli.conn].st = "open"
       THEN /\ conns' = [conns EXCEPT ![cli.conn].c2s =
                          Append(@, startMessage(BaseName(cli.fpath), fsize[cli.fpath]))]
            /\ cli' = [cli EXCEPT !.pc = "recvAck"]
       ELSE ClientSessionError
  /\ UNCHANGED <<fsize, fail, peer, dmn, todo, backlog, srv, archive>>

\* The head of the block loop of send, entered with sequence number seqNum
\* and file offset fpos: read, trim and encode the next block, or return nil.
ClientLoopHead(seqNum, fpos) ==
  LET n == fsize[cli.fpath]
      numBlocks == getNumBlocks(n)
      data == ReadBlock(cli.fpath, fpos, n)
      eof == data.len = 0
  IN IF seqNum < numBlocks
       THEN IF eof /\ seqNum # numBlocks - 1
              THEN ClientSessionError
              ELSE IF conns[cli.conn].st = "open"
                     THEN /\ conns' = [conns EXCEPT
                                        ![cli.conn].c2s = Append(@, dataMessage(seqNum, data)),
                                        ![cli.conn].s2c = IF @ = <<>> THEN @ ELSE Tail(@)]
                          /\ cli' = [cli EXCEPT !.pc = "recvDataAck",
                                                !.seqNum = seqNum,
                                                !.fpos = fpos + data.len,
                                                !.emitted = Append(@, [seqNum |-> seqNum, len |-> data.len])]
                     ELSE ClientSessionError
       ELSE /\ cli' = [cli EXCEPT !.pc = "done", !.seqNum = seqNum, !.fpos = fpos]
            /\ conns' = [conns EXCEPT ![cli.conn] =
                           Release([@ EXCEPT !.cliEnd = FALSE, !.s2c = <<>>])]

\* send: notifier.RecvAck(), dec.Decode(&ack), the ErrType check, os.Open and
\* the first pass of the block loop.
ClientRecvAck ==
  /\ cli.pc = "recvAck"
  /\ LET k == conns[cli.conn]
     IN IF k.st # "open"
          THEN ClientSessionError
          ELSE /\ k.s2c # <<>>
               /\ LET ack == Head(k.s2c)
                  IN IF ack.type # "ack" \/ ack.errType # ErrSuccess
                       THEN ClientSessionError
                       ELSE ClientLoopHead(ack.seqNum, OpenOffset(ack.seqNum))
  /\ UNCHANGED <<fsize, fail, peer, dmn, todo, backlog, srv, archive>>

\* send: dec.Decode(&dataAckMsg), the sequence check and seqNum++.
ClientRecvDataAck ==
  /\ cli.pc = "recvDataAck"
  /\ LET k == conns[cli.conn]
     IN IF k.st # "open"
          THEN ClientSessionError
          ELSE /\ k.s2c # <<>>
               /\ LET m == Head(k.s2c)
                  IN IF m.type # "dataAck" \/ m.seqNum # cli.seqNum
                       THEN ClientSessionError
                       ELSE /\ cli' = [cli EXCEPT !.pc = "progress",
                                                  !.seqNum = cli.seqNum + 1]
                            /\ conns' = [conns EXCEPT ![cli.conn].s2c = Tail(@)]
  /\ UNCHANGED <<fsize, fail, peer, dmn, todo, backlog, srv, archive>>

\* send: notifier.UpdateProgress and the next pass of the block loop.
ClientProgress ==
  /\ cli.pc = "progress"
  /\ ClientLoopHead(cli.seqNum, cli.fpos)
  /\ UNCHANGED <<fsize, fail, peer, dmn, todo, backlog, srv, archive>>

\* transferTest: the loop that calls Send for each file in turn.
TestSend ==
  /\ cli.pc \in {"idle", "done"}
  /\ todo # <<>>
  /\ cli' = StartSend(Head(todo))
  /\ todo' = Tail(todo)
  /\ UNCHANGED <<fsize, fail, peer, dmn, conns, backlog, srv, archive>>

(* ------------------------------------------------------------------ *)
(* Server: Serve (accept loop) and recv (one session)                 *)
(* ------------------------------------------------------------------ *)

\* fileExists(path.Join(archiveDir, name)): os.Stat succeeds.
fileExists(name) == archive[name].exists

\* os.OpenFile(fpath, O_CREATE|O_RDWR) succeeds unless the directory of the
\* path is missing.
CanOpen(name) == name # BadDirName

OfferCheckNoExists(name, srvName) ==
  IF name = "" THEN ErrEmptyFilename
  ELSE IF srvName # "" /\ srvName # name THEN ErrWrongFile
  ELSE IF ~CanOpen(name) THEN ErrOpen
  ELSE ErrSuccess

OfferCheckWrongFirst(name, srvName) ==
  IF srvName # "" /\ srvName # name THEN ErrWrongFile
  ELSE IF name = "" THEN ErrEmptyFilename
  ELSE IF fileExists(name) /\ srvName # name THEN ErrAlreadyExists
  ELSE IF ~CanOpen(name) THEN ErrOpen
  ELSE ErrSuccess

OfferCheckNoWrongFile(name, srvName) ==
  IF name = "" THEN ErrEmptyFilename
  ELSE IF fileExists(name) /\ srvName # name THEN ErrAlreadyExists
  ELSE IF ~CanOpen(name) THEN ErrOpen
  ELSE ErrSuccess

\* recv: the checks between decoding the StartOffer and the state update;
\* the error type the session answers with.
OfferCheck(name, srvName) ==
  IF name = "" THEN ErrEmptyFilename
  ELSE IF srvName # "" /\ srvName # name THEN ErrWrongFile
  ELSE IF fileExists(name) /\ srvName # name THEN ErrAlreadyExists
  ELSE IF ~CanOpen(name) THEN ErrOpen
  ELSE ErrSuccess

\* recv: "if srv.name == "" { srv.name, srv.size, srv.seqNum = ... }".
InitStateAlways(s, m) ==
  [s EXCEPT !.name = m.name, !.size = m.size, !.seqNum = 0]

InitState(s, m) ==
  IF s.name = "" THEN [s EXCEPT !.name = m.name, !.size = m.size, !.seqNum = 0]
                 ELSE s

\* recv: the reset of the transfer state after the block loop.
ResetStateSeqOnly(s) == [s EXCEPT !.seqNum = 0]

ResetState(s) == [s EXCEPT !.name = "", !.size = 0, !.seqNum = 0]

\* What enc.Encode can do on the server's end of connection k: the message
\* is sent, or (the peer gone) it is lost or the write fails.
EncodeOutcomes(k) == IF k.st = "open" THEN {"sent"} ELSE {"lost", "fail"}

Deliver(k, o, m) ==
  IF o = "sent" /\ k.cliEnd THEN [k EXCEPT !.s2c = Append(@, m)] ELSE k

\* The server is done with the connection: recv has returned.
LeftByServer(k) == Release([k EXCEPT !.srvEnd = FALSE, !.c2s = <<>>])

\* f.WriteAt(data, pos): the bytes replace what the file held at pos.
WriteAt(f, data, pos) ==
  IF data.len = 0 THEN f
  ELSE LET old == {e \in f.ext : e.pos = pos}
           rest == {[pos |-> e.pos + data.len,
                     data |-> [src |-> e.data.src, off |-> e.data.off + data.len,
                               len |-> e.data.len - data.len]] :
                      e \in {x \in old : x.data.len > data.len}}
       IN [f EXCEPT !.size = Max(@, pos + data.len),
                    !.ext = ((@ \ old) \cup rest) \cup {[pos |-> pos, data |-> data]}]

AckSeqNumAfter(s) == s.seqNum + 1

\* The sequence number the server puts into DataAck.
AckSeqNum(s) == s.seqNum

\* Serve: listener.Accept() returns the next queued connection.
SrvAccept ==
  /\ srv.pc = "accept"
  /\ srv.listening
  /\ backlog # <<>>
  /\ srv' = [srv EXCEPT !.pc = "recvStart", !.conn = Head(backlog)]
  /\ backlog' = Tail(backlog)
  /\ UNCHANGED <<fsize, fail, peer, dmn, todo, cli, conns, archive>>

SrvReturnReset(s, ret) ==
  [s EXCEPT !.pc = "accept", !.conn = 0, !.ret = ret,
            !.name = "", !.size = 0, !.seqNum = 0]

SrvReturnStops(s, ret) ==
  [s EXCEPT !.pc = IF ret = "err" THEN "returned" ELSE "accept",
            !.conn = 0, !.ret = ret]

\* recv returns err; Serve logs it and continues with Accept.
SrvReturn(s, ret) == [s EXCEPT !.pc = "accept", !.conn = 0, !.ret = ret]

\* Serve: listener.Accept() returns an error, and Serve returns it.
SrvAcceptFail ==
  /\ srv.pc = "accept"
  /\ ~srv.listening
  /\ srv' = [srv EXCEPT !.pc = "returned"]
  /\ UNCHANGED <<fsize, fail, peer, dmn, todo, cli, conns, backlog, archive>>

\* The head of the block loop of recv in state s: wait for the next block,
\* or reset the state and return nil.
SrvLoopHead(s) ==
  IF s.seqNum < getNumBlocks(s.size)
    THEN [s EXCEPT !.pc = "recvData", !.ret = "none"]
    ELSE SrvReturn([ResetState(s) EXCEPT !.finished = Append(@, s.name)], "nil")

\* recv: dec.Decode(&startMsg), the rejections, os.OpenFile, the state
\* update, the ResumeAck and the first test of the block loop.
SrvRecvStart ==
  /\ srv.pc = "recvStart"
  /\ LET c == srv.conn
         k == conns[c]
     IN IF k.c2s = <<>>
          THEN /\ k.st # "open"
               /\ srv' = SrvReturn(srv, "err")
               /\ conns' = [conns EXCEPT ![c] = LeftByServer(k)]
               /\ UNCHANGED archive
          ELSE LET m == Head(k.c2s)
                   err == OfferCheck(m.name, srv.name)
               IN IF m.type # "start"
                    THEN /\ srv' = SrvReturn(srv, "err")
                         /\ conns' = [conns EXCEPT ![c] = LeftByServer(k)]
                         /\ UNCHANGED archive
                  ELSE IF err # ErrSuccess
                    THEN \E o \in EncodeOutcomes(k) :
                           LET reply == ackMessage("", 0, 0, err)
                           IN /\ srv' = [SrvReturn(srv, "err") EXCEPT
                                           !.offer = m, !.reply = reply]
                              /\ conns' = [conns EXCEPT ![c] =
                                             LeftByServer(Deliver(k, o, reply))]
                              /\ UNCHANGED archive
                    ELSE \E o \in EncodeOutcomes(k) :
                           LET s0 == InitState(srv, m)
                               s1 == IF srv.name = ""
                                       THEN [s0 EXCEPT !.started = Append(@, m.name)]
                                       ELSE s0
                               reply == ackMessage(s1.name, s1.seqNum, s1.size, ErrSuccess)
                               s2 == [s1 EXCEPT !.offer = m, !.reply = reply]
                               k1 == [Deliver(k, o, reply) EXCEPT !.c2s = Tail(@)]
                               s3 == IF o = "fail" THEN SrvReturn(s2, "err")
                                                   ELSE SrvLoopHead(s2)
                           IN /\ archive' = IF fileExists(m.name) THEN archive
                                             ELSE [archive EXCEPT ![m.name] = EmptyFile]
                              /\ srv' = s3
                              /\ conns' = [conns EXCEPT ![c] =
                                             IF s3.pc = "accept" THEN LeftByServer(k1) ELSE k1]
  /\ UNCHANGED <<fsize, fail, peer, dmn, todo, cli, backlog>>

\* recv: one pass of the block loop: dec.Decode(&dataMsg), f.WriteAt,
\* enc.Encode(dataAckMessage), srv.seqNum++ and the next test of the loop.
SrvRecvData ==
  /\ srv.pc = "recvData"
  /\ LET c == srv.conn
         k == conns[c]
     IN IF k.c2s = <<>>
          THEN /\ k.st # "open"
               /\ srv' = SrvReturn(srv, "err")
               /\ conns' = [conns EXCEPT ![c] = LeftByServer(k)]
               /\ UNCHANGED archive
          ELSE LET m == Head(k.c2s)
               IN IF m.type # "data"
                    THEN /\ srv' = SrvReturn(srv, "err")
                         /\ conns' = [conns EXCEPT ![c] = LeftByServer(k)]
                         /\ UNCHANGED archive
                    ELSE \E o \in EncodeOutcomes(k) :
                           LET dataAck == dataAckMessage(AckSeqNum(srv))
                               k1 == [Deliver(k, o, dataAck) EXCEPT !.c2s = Tail(@)]
                               sw == [srv EXCEPT !.written =
                                        @ \cup {<<srv.name, getFilePos(srv.seqNum)>>}]
                               s1 == [sw EXCEPT !.seqNum = srv.seqNum + 1,
                                                !.acked = @ \cup {<<srv.name, AckSeqNum(srv)>>}]
                               s2 == IF o = "fail" THEN SrvReturn(sw, "err")
                                                   ELSE SrvLoopHead(s1)
                           IN /\ archive' = [archive EXCEPT ![srv.name] =
                                               WriteAt(@, m.data, getFilePos(srv.seqNum))]
                              /\ srv' = s2
                              /\ conns' = [conns EXCEPT ![c] =
                                             IF s2.pc = "accept" THEN LeftByServer(k1) ELSE k1]
  /\ UNCHANGED <<fsize, fail, peer, dmn, todo, cli, backlog>>

AfterWriteErrorCounted(s) == SrvReturn([s EXCEPT !.seqNum = @ + 1], "err")

\* recv: f.WriteAt returned an error, recv returns it.
AfterWriteError(s) == SrvReturn(s, "err")

\* recv: a pass of the block loop in which f.WriteAt fails: no DataAck is
\* encoded and srv.seqNum stays.  The file is taken as left untouched.
SrvWriteFail ==
  /\ srv.pc = "recvData"
  /\ fail.wr > 0
  /\ LET c == srv.conn
         k == conns[c]
     IN /\ k.c2s # <<>>
        /\ Head(k.c2s).type = "data"
        /\ srv' = AfterWriteError(srv)
        /\ conns' = [conns EXCEPT ![c] = LeftByServer(k)]
  /\ fail' = [fail EXCEPT !.wr = @ - 1]
  /\ UNCHANGED <<fsize, peer, dmn, todo, cli, backlog, archive>>

(* ------------------------------------------------------------------ *)
(* A peer on the server port                                          *)
(* ------------------------------------------------------------------ *)

\* A peer dials the server port and sends StartOffer{name, size} itself.
\* The offer m carries the name of a file of the test, sent or still to be
\* sent, with another size.
Resizes(m) ==
  \E p \in Range(todo) \cup ({cli.fpath} \cap Paths) :
    BaseName(p) = m.name /\ fsize[p] # m.size

PeerOffer ==
  /\ peer.pc = "idle"
  /\ peer.left > 0
  /\ srv.listening
  /\ \E m \in PeerOffers, c \in ConnIds :
       /\ conns[c].st = "free"
       /\ \A d \in ConnIds : conns[d].st = "free" => c <= d
       /\ conns' = [conns EXCEPT ![c] =
                      [st |-> "open", c2s |-> <<m>>,
                       s2c |-> <<>>, cliEnd |-> TRUE, srvEnd |-> TRUE]]
       /\ backlog' = Append(backlog, c)
       /\ peer' = [peer EXCEPT !.pc = "wait", !.conn = c, !.left = @ - 1,
                               !.resized = @ \/ Resizes(m)]
  /\ UNCHANGED <<fsize, todo, cli, srv, archive, fail, dmn>>

\* The peer reads the server's answer and hangs up.
PeerClose ==
  /\ peer.pc = "wait"
  /\ conns[peer.conn].s2c # <<>>
  /\ conns' = [conns EXCEPT ![peer.conn] = ClosedByClient(@)]
  /\ peer' = [peer EXCEPT !.pc = "idle", !.conn = 0]
  /\ UNCHANGED <<fsize, todo, cli, backlog, srv, archive, fail, dmn>>

(* ------------------------------------------------------------------ *)
(* Daemon: Serve, handleConn, director                                *)
(* ------------------------------------------------------------------ *)

\* A panic in the uploader goroutine or in a caller of Stop ends the daemon
\* process.
Alive == cli.pc # "panic" /\ \A i \in StopIds : dmn.stops[i] # "panic"

\* daemon.Serve: go d.director(), net.Listen, then the accept loop.
DaemonServe ==
  /\ dmn.servePc = "init"
  /\ dmn' = [dmn EXCEPT !.servePc = "accept", !.dirPc = "run", !.open = TRUE]
  /\ UNCHANGED <<fsize, todo, cli, conns, backlog, srv, archive, fail, peer>>

\* daemonTest / SendToDaemon: dial the daemon and encode the path.
Submit ==
  /\ Alive
  /\ dmn.open
  /\ todo # <<>>
  /\ dmn' = [dmn EXCEPT !.lbacklog = Append(@, Head(todo)),
                         !.submitted = Append(@, Head(todo))]
  /\ todo' = Tail(todo)
  /\ UNCHANGED <<fsize, cli, conns, backlog, srv, archive, fail, peer>>

\* Serve: Accept, then handleConn decodes the path and blocks on
\* d.newFiles <- fpath.
DaemonAccept ==
  /\ Alive
  /\ dmn.servePc = "accept"
  /\ dmn.open
  /\ dmn.lbacklog # <<>>
  /\ dmn' = [dmn EXCEPT !.servePc = "handle", !.handler = Head(dmn.lbacklog),
                         !.lbacklog = Tail(@)]
  /\ UNCHANGED <<fsize, todo, cli, conns, backlog, srv, archive, fail, peer>>

\* Serve: d.listener.Accept() returns an error, and Serve returns it.
DaemonAcceptFail ==
  /\ Alive
  /\ dmn.servePc = "accept"
  /\ ~dmn.open
  /\ dmn' = [dmn EXCEPT !.servePc = "returned"]
  /\ UNCHANGED <<fsize, todo, cli, conns, backlog, srv, archive, fail, peer>>

NextUploadBack(q) == q[Len(q)]

\* director: the path the next uploader is spawned on, queue.Front().
NextUpload(q) == Head(q)

SpawnOnNewFileAlways(q) == Len(q) >= 1

\* director, case newFiles: "if queue.Len() == 1 { go send(fpath) }".
SpawnOnNewFile(q) == Len(q) = 1

SpawnOnDoneNever(q) == FALSE

\* director, case done: "if queue.Len() > 0 { go send(queue.Front()) }".
SpawnOnDone(q) == Len(q) > 0

RemoveBack(q) == SubSeq(q, 1, Len(q) - 1)

\* director, case done: queue.Remove(queue.Front()).
RemoveFront(q) == Tail(q)

\* director, case fpath := <-d.newFiles: push, and spawn the uploader when
\* the queue held nothing else; handleConn returns.
DirNewFile ==
  /\ Alive
  /\ dmn.dirPc = "run"
  /\ dmn.servePc = "handle"
  /\ LET q == Append(dmn.queue, dmn.handler)
         spawn == SpawnOnNewFile(q)
     IN /\ dmn' = [dmn EXCEPT !.queue = q, !.servePc = "accept", !.handler = "",
                              !.uploaders = IF spawn THEN @ + 1 ELSE @]
        /\ cli' = IF spawn THEN StartSend(dmn.handler) ELSE cli
  /\ UNCHANGED <<fsize, todo, conns, backlog, srv, archive, fail, peer>>

\* director, case err := <-done: the uploader's Send has returned; pop the
\* head and spawn the uploader of the new head, if any.
DirDone ==
  /\ Alive
  /\ dmn.dirPc = "run"
  /\ dmn.uploaders > 0
  /\ cli.pc = "done"
  /\ IF dmn.queue = <<>>
       THEN /\ dmn' = [dmn EXCEPT !.dirPc = "panic", !.uploaders = @ - 1]
            /\ cli' = [cli EXCEPT !.pc = "panic"]
       ELSE LET q == RemoveFront(dmn.queue)
                spawn == SpawnOnDone(q)
            IN /\ dmn' = [dmn EXCEPT !.queue = q,
                                     !.uploaded = Append(@, cli.fpath),
                                     !.uploaders = IF spawn THEN @ ELSE @ - 1]
               /\ cli' = IF spawn THEN StartSend(NextUpload(q)) ELSE IdleClient
  /\ UNCHANGED <<fsize, todo, conns, backlog, srv, archive, fail, peer>>

\* What a caller of Stop can read from d.stopped, which is written
\* without synchronisation by the other callers.
StoppedSeen == IF dmn.stopped THEN {TRUE, FALSE} ELSE {FALSE}

CanRecvStopBuffered(d) == d.dirPc \in {"run", "exited"}

\* The director is at its select and can take the case <-d.stop.
CanRecvStop(d) == d.dirPc = "run"

\* Stop: "if !d.stopped { d.listener.Close() ...": before Serve has
\* listened d.listener is nil and the call panics; otherwise the listener
\* is closed and the connections not yet accepted are dropped.
StopCall(i) ==
  /\ Alive
  /\ dmn.stops[i] = "idle"
  /\ IF ~dmn.open /\ dmn.servePc = "init"
       THEN dmn' = [dmn EXCEPT !.stops[i] = "panic"]
       ELSE \E seen \in StoppedSeen :
              dmn' = IF seen
                       THEN [dmn EXCEPT !.stops[i] = "done"]
                       ELSE [dmn EXCEPT !.stops[i] = "send", !.open = FALSE,
                                        !.lbacklog = <<>>]
  /\ UNCHANGED <<fsize, todo, cli, conns, backlog, srv, archive, fail, peer>>

\* Stop: "d.stop <- true", received by the director's case <-d.stop, which
\* leaves the loop; the director returns.
StopSend(i) ==
  /\ Alive
  /\ dmn.stops[i] = "send"
  /\ CanRecvStop(dmn)
  /\ dmn' = [dmn EXCEPT !.stops[i] = "mark", !.dirPc = "exited"]
  /\ UNCHANGED <<fsize, todo, cli, conns, backlog, srv, archive, fail, peer>>

\* Stop: "d.stopped = true", and Stop returns.
StopMark(i) ==
  /\ Alive
  /\ dmn.stops[i] = "mark"
  /\ dmn' = [dmn EXCEPT !.stops[i] = "done", !.stopped = TRUE]
  /\ UNCHANGED <<fsize, todo, cli, conns, backlog, srv, archive, fail, peer>>

(* ------------------------------------------------------------------ *)
(* Failures                                                           *)
(* ------------------------------------------------------------------ *)

\* clientCrashSendNotifier: inside SendStart, RecvAck or UpdateProgress the
\* client's connection is closed under the running session (dialer.Close()).
NotifierClose ==
  /\ cli.pc \in {"sendStart", "recvAck", "progress"}
  /\ fail.crash > 0
  /\ conns[cli.conn].st = "open"
  /\ conns' = [conns EXCEPT ![cli.conn].st = "closed", ![cli.conn].s2c = <<>>]
  /\ fail' = [fail EXCEPT !.crash = @ - 1]
  /\ UNCHANGED <<fsize, todo, cli, backlog, srv, archive, peer, dmn>>

\* The network drops a connection in mid-session: what the server sent and
\* the client has not read is lost, both ends get errors from then on.
ConnBreak ==
  /\ fail.brk > 0
  /\ cli.pc \in {"sendStart", "recvAck", "recvDataAck", "progress"}
  /\ conns[cli.conn].st = "open"
  /\ conns' = [conns EXCEPT ![cli.conn].st = "broken", ![cli.conn].s2c = <<>>]
  /\ fail' = [fail EXCEPT !.brk = @ - 1]
  /\ UNCHANGED <<fsize, todo, cli, backlog, srv, archive, peer, dmn>>

\* dialer.Dial() returns (nil, err): Send calls cleanup(conn), and
\* conn.Close() on the nil connection panics.
DialFail ==
  /\ cli.pc = "dial"
  /\ fail.dial > 0 \/ ~srv.listening
  /\ cli' = [cli EXCEPT !.pc = "panic"]
  /\ fail' = [fail EXCEPT !.dial = IF srv.listening THEN @ - 1 ELSE @]
  /\ UNCHANGED <<fsize, todo, conns, backlog, srv, archive, peer, dmn>>

\* The listener handed to NewServer is closed: connections not yet accepted
\* are reset, Accept fails from then on and so does every Dial.
ListenerClose ==
  /\ srv.listening
  /\ srv' = [srv EXCEPT !.listening = FALSE]
  /\ conns' = [c \in ConnIds |->
                IF c \in Range(backlog)
                  THEN Release([conns[c] EXCEPT !.st = "broken", !.srvEnd = FALSE,
                                                !.c2s = <<>>, !.s2c = <<>>])
                  ELSE conns[c]]
  /\ backlog' = <<>>
  /\ UNCHANGED <<fsize, todo, cli, archive, fail, peer, dmn>>

(* ------------------------------------------------------------------ *)
(* Specification: transfers over connections that never fail          *)
(* ------------------------------------------------------------------ *)

\* The lists of the first 1..n files.
FileLists(n) == {SubSeq(PathSeq, 1, len) : len \in 1..Min(n, Len(PathSeq))}

\* The state after construction, for a test that passes one of `lists` on.
InitWith(lists) ==
  /\ todo \in lists
  /\ fsize \in [Paths -> Sizes]
  /\ \A p \in Paths \ Range(todo) : fsize[p] = 0
  /\ cli = IdleClient
  /\ conns = [c \in ConnIds |-> FreeConn]
  /\ backlog = <<>>
  /\ srv = IdleServer
  /\ archive = [n \in Names |-> NoFile]
  /\ fail = [crash |-> MaxCrashes, brk |-> MaxBreaks, dial |-> MaxDialFails,
             wr |-> MaxWriteFails]
  /\ peer = IdlePeer
  /\ dmn = NewDaemon

Init == InitWith(FileLists(MaxFiles))

\* transferTest with a single file, as in clientCrashTest.
InitOne == InitWith(FileLists(1))

Next ==
  \/ TestSend
  \/ ClientDial
  \/ ClientSendStart
  \/ ClientRecvAck
  \/ ClientRecvDataAck
  \/ ClientProgress
  \/ SrvAccept
  \/ SrvRecvStart
  \/ SrvRecvData

Spec == Init /\ [][Next]_vars

\* The same with the client's connection closed under it by the notifier.
NextCrash ==
  \/ Next
  \/ NotifierClose

SpecCrash == InitOne /\ [][NextCrash]_vars

\* The same with connections the network breaks.
NextNet ==
  \/ NextCrash
  \/ ConnBreak

SpecNet == InitOne /\ [][NextNet]_vars

\* A client whose connection may be closed under it, and a peer that
\* sends offers of its own to the server port.
NextProbe ==
  \/ NextCrash
  \/ PeerOffer
  \/ PeerClose

SpecProbe == InitOne /\ [][NextProbe]_vars

\* A client and a server with every failure of a session: connections
\* closed or broken, a failing dial, a failing write to the archive and a
\* listener that is closed.
NextSrv ==
  \/ NextNet
  \/ DialFail
  \/ SrvWriteFail
  \/ ListenerClose
  \/ SrvAcceptFail

SpecSrv == InitOne /\ [][NextSrv]_vars

\* daemonTest: the daemon is given the first MaxSubmits files, all of one
\* size.
InitDaemon ==
  /\ todo = SubSeq(PathSeq, 1, Min(MaxSubmits, Len(PathSeq)))
  /\ \E sz \in Sizes : fsize = [p \in Paths |-> IF p \in Range(todo) THEN sz ELSE 0]
  /\ cli = IdleClient
  /\ conns = [c \in ConnIds |-> FreeConn]
  /\ backlog = <<>>
  /\ srv = IdleServer
  /\ archive = [n \in Names |-> NoFile]
  /\ fail = [crash |-> MaxCrashes, brk |-> MaxBreaks, dial |-> MaxDialFails,
             wr |-> MaxWriteFails]
  /\ peer = IdlePeer
  /\ dmn = NewDaemon

Uploader ==
  \/ ClientDial
  \/ ClientSendStart
  \/ ClientRecvAck
  \/ ClientRecvDataAck
  \/ ClientProgress

Server ==
  \/ SrvAccept
  \/ SrvRecvStart
  \/ SrvRecvData

NextDaemon ==
  \/ DaemonServe
  \/ Submit
  \/ DaemonAccept
  \/ DirNewFile
  \/ DirDone
  \/ Uploader
  \/ Server
  \/ ConnBreak
  \/ DialFail

SpecDaemon == InitDaemon /\ [][NextDaemon]_vars

\* Every goroutine that can take a step is scheduled; failures are up to
\* the environment.
SpecDaemonFair ==
  /\ SpecDaemon
  /\ WF_vars(DaemonServe)
  /\ WF_vars(Submit)
  /\ WF_vars(DaemonAccept)
  /\ WF_vars(DirNewFile)
  /\ WF_vars(DirDone)
  /\ WF_vars(Uploader)
  /\ WF_vars(Server)

\* The daemon with calls of Stop, over connections that never fail.
Stop ==
  \E i \in StopIds :
    \/ StopCall(i)
    \/ StopSend(i)
    \/ StopMark(i)

NextStop ==
  \/ DaemonServe
  \/ Submit
  \/ DaemonAccept
  \/ DaemonAcceptFail
  \/ DirNewFile
  \/ DirDone
  \/ Uploader
  \/ Server
  \/ Stop

SpecStop == InitDaemon /\ [][NextStop]_vars

\* Every goroutine that can take a step is scheduled; when Stop is called
\* is up to the callers.
SpecStopFair ==
  /\ SpecStop
  /\ WF_vars(DaemonServe)
  /\ WF_vars(Submit)
  /\ WF_vars(DaemonAccept)
  /\ WF_vars(DaemonAcceptFail)
  /\ WF_vars(DirNewFile)
  /\ WF_vars(DirDone)
  /\ WF_vars(Uploader)
  /\ WF_vars(Server)
  /\ \A i \in StopIds : WF_vars(StopSend(i)) /\ WF_vars(StopMark(i))

(* ------------------------------------------------------------------ *)
(* Claims                                                             *)
(* ------------------------------------------------------------------ *)

\* Block i of a source file p, as the bytes of the file themselves.
ExpectedBlock(p, i) ==
  [pos |-> i * payloadSize,
   data |-> [src |-> p, off |-> i * payloadSize,
             len |-> Min(payloadSize, fsize[p] - i * payloadSize)]]

ExpectedBlocks(p) ==
  {ExpectedBlock(p, i) : i \in {j \in 0..(MaxBlocks + 1) : j * payloadSize < fsize[p]}}

\* The archived copy of p has the size and the bytes of p.
ArchivedExactly(p) ==
  LET f == archive[BaseName(p)]
  IN /\ f.exists
     /\ f.size = fsize[p]
     /\ f.ext = ExpectedBlocks(p)

\* C1: over connections that never fail, when send returns success for a
\* file, the archived file has exactly the file's size and every block of
\* it equals the block of the source.
C1_RoundTrip == cli.pc = "done" => ArchivedExactly(cli.fpath)

C1_Witness ==
  /\ cli.pc = "done"
  /\ fsize[cli.fpath] = payloadSize + TailLen
  /\ ArchivedExactly(cli.fpath)
  /\ Cardinality(archive[BaseName(cli.fpath)].ext) = 2

\* C2: when the server holds a broken transfer of a file for which it has
\* sent DataAck for exactly the blocks [0, k), k < numBlocks, the session
\* that offers the same name next is answered with Success and seqNum = k.
AckedBlocks(name) == {a[2] : a \in {x \in srv.acked : x[1] = name}}

ResumeCase(k) ==
  /\ srv.pc = "recvStart"
  /\ srv'.pc # "recvStart"
  /\ conns[srv.conn].c2s # <<>>
  /\ LET m == Head(conns[srv.conn].c2s)
     IN /\ m.type = "start"
        /\ m.name # ""
        /\ m.name = srv.name
        /\ AckedBlocks(m.name) = 0..(k - 1)
        /\ k * payloadSize < m.size

C2_ResumeOffset ==
  [][\A k \in 0..(MaxBlocks + 1) :
       ResumeCase(k) =>
         /\ srv'.reply.type = "ack"
         /\ srv'.reply.errType = ErrSuccess
         /\ srv'.reply.seqNum = k]_vars

C2_Witness ==
  /\ srv.pc = "recvData"
  /\ srv.reply.errType = ErrSuccess
  /\ srv.reply.seqNum = 1
  /\ srv.offer.name = "a"
  /\ AckedBlocks("a") = {0}

\* C3 (as claimed): whenever the retry loop returns after the client's
\* connection was closed under it, the archived file equals the source.
C3_ResumeContent ==
  (cli.pc = "done" /\ fail.crash < MaxCrashes) => ArchivedExactly(cli.fpath)

\* C6: at most one DataBlock is in flight on a connection; while the client
\* waits for a DataAck it has sent nothing after DataBlock(seqNum), the next
\* message it reads is DataAck(seqNum), and when it goes on no block is
\* left unacknowledged.
IsData(m) == m.type = "data"

C6_StopAndWait ==
  /\ \A c \in ConnIds : Len(SelectSeq(conns[c].c2s, IsData)) <= 1
  /\ (cli.pc = "recvDataAck" /\ conns[cli.conn].st = "open") =>
       LET k == conns[cli.conn]
       IN /\ Len(k.c2s) + Len(k.s2c) <= 1
          /\ k.c2s # <<>> => (IsData(Head(k.c2s)) /\ Head(k.c2s).seqNum = cli.seqNum)
          /\ k.s2c # <<>> => Head(k.s2c) = dataAckMessage(cli.seqNum)
  /\ (cli.pc \in {"progress", "done"} /\ cli.conn # 0) =>
       conns[cli.conn].c2s = <<>>

C6_Witness ==
  /\ cli.pc = "recvDataAck"
  /\ cli.seqNum = 1
  /\ conns[cli.conn].st = "open"
  /\ conns[cli.conn].s2c = <<dataAckMessage(1)>>

\* C7 (as claimed): when the retry loop has returned for a file of n bytes,
\* ceil(n / payloadSize) DataBlocks were emitted, the one numbered
\* numBlocks - 1 with ((n - 1) mod payloadSize) + 1 bytes and every other
\* one with payloadSize bytes.
C7_BlockLengths ==
  cli.pc = "done" =>
    LET n == fsize[cli.fpath]
        nb == (n + payloadSize - 1) \div payloadSize
    IN /\ Len(cli.emitted) = nb
       /\ \A i \in DOMAIN cli.emitted :
            cli.emitted[i].len =
              IF cli.emitted[i].seqNum = nb - 1
                THEN ((n - 1) % payloadSize) + 1
                ELSE payloadSize

\* The server's step that decodes a StartOffer m and answers it.
OfferStep(m) ==
  /\ srv.pc = "recvStart"
  /\ srv'.pc # "recvStart"
  /\ conns[srv.conn].c2s # <<>>
  /\ m = Head(conns[srv.conn].c2s)
  /\ m.type = "start"

OfferSet == {startMessage(n, sz) : n \in Names, sz \in Sizes}

StateKept == <<srv'.name, srv'.size, srv'.seqNum>> = <<srv.name, srv.size, srv.seqNum>>

Finished(name) == \E i \in DOMAIN srv.finished : srv.finished[i] = name

\* C8 (as claimed): once a transfer of a name has completed at the server,
\* every later StartOffer with that name is answered with AlreadyExists,
\* and the session changes neither the archive nor the transfer state.
C8_AlwaysAlreadyExists ==
  [][\A m \in OfferSet :
       (OfferStep(m) /\ Finished(m.name)) =>
         /\ srv'.reply.errType = ErrAlreadyExists
         /\ archive' = archive
         /\ StateKept]_vars

\* C8 (amended): once a transfer of a name has completed at the server,
\* every later StartOffer with that name is rejected, with AlreadyExists
\* when the server is idle and with WrongFile while it holds a transfer of
\* another file in progress; the session changes neither the archive nor
\* the transfer state.
C8_IdempotentCompletion ==
  [][\A m \in OfferSet :
       (OfferStep(m) /\ Finished(m.name)) =>
         /\ srv'.reply.type = "ack"
         /\ srv'.reply.errType =
              (IF srv.name = "" THEN ErrAlreadyExists ELSE ErrWrongFile)
         /\ srv'.ret = "err"
         /\ archive' = archive
         /\ StateKept]_vars

C8_Witness ==
  /\ Finished("a")
  /\ srv.pc = "accept"
  /\ srv.name = ""
  /\ srv.offer.name = "a"
  /\ srv.reply.errType = ErrAlreadyExists
  /\ ArchivedExactly("p1")

\* C9: a StartOffer with an empty name is answered with EmptyFilename in
\* every server state; the session returns an error, the archive directory
\* and the server's (name, size, seqNum) stay as they were.
C9_EmptyName ==
  [][\A m \in OfferSet :
       (OfferStep(m) /\ m.name = "") =>
         /\ srv'.reply = ackMessage("", 0, 0, ErrEmptyFilename)
         /\ srv'.ret = "err"
         /\ srv'.pc = "accept"
         /\ archive' = archive
         /\ StateKept]_vars

C9_Witness ==
  /\ srv.pc = "accept"
  /\ srv.name # ""
  /\ srv.seqNum > 0
  /\ srv.offer.name = ""
  /\ srv.reply.errType = ErrEmptyFilename
  /\ srv.ret = "err"

\* C10 (as claimed): while a transfer is in progress, every StartOffer
\* whose name differs from state.name is answered with WrongFile, and the
\* transfer state and the archive are unchanged.
C10_AnyOtherName ==
  [][\A m \in OfferSet :
       (OfferStep(m) /\ srv.name # "" /\ m.name # srv.name) =>
         /\ srv'.reply.errType = ErrWrongFile
         /\ archive' = archive
         /\ StateKept]_vars

\* C10 (amended): while a transfer is in progress, every StartOffer whose
\* name is not empty and differs from state.name is answered with
\* WrongFile, and the transfer state and the archive are unchanged.
C10_WrongFile ==
  [][\A m \in OfferSet :
       (OfferStep(m) /\ srv.name # "" /\ m.name # "" /\ m.name # srv.name) =>
         /\ srv'.reply = ackMessage("", 0, 0, ErrWrongFile)
         /\ srv'.ret = "err"
         /\ archive' = archive
         /\ StateKept]_vars

C10_Witness ==
  /\ srv.pc = "accept"
  /\ srv.name = "a"
  /\ srv.seqNum = 1
  /\ srv.offer.name = "b"
  /\ srv.reply.errType = ErrWrongFile
  /\ ~archive["b"].exists

\* C4 (as claimed): every path the director has accepted is eventually
\* uploaded and popped from the queue.
C4_EventualDelivery ==
  \A p \in Paths :
    (p \in Range(dmn.queue)) ~> (p \in Range(dmn.uploaded))

\* C5: the server starts and completes the transfers in submission order,
\* and a StartOffer for a path is on the wire only when every path
\* submitted before it has been uploaded.
IsPrefix(a, b) == Len(a) <= Len(b) /\ a = SubSeq(b, 1, Len(a))

SubmittedNames == [i \in DOMAIN dmn.submitted |-> BaseName(dmn.submitted[i])]

OffersOnWire ==
  {m.name : m \in UNION {Range(conns[c].c2s) : c \in ConnIds}} \ {""}

C5_SubmissionFifo ==
  /\ IsPrefix(srv.started, SubmittedNames)
  /\ IsPrefix(srv.finished, SubmittedNames)
  /\ IsPrefix(dmn.uploaded, dmn.submitted)
  /\ \A i \in DOMAIN dmn.submitted :
       BaseName(dmn.submitted[i]) \in OffersOnWire => Len(dmn.uploaded) >= i - 1

C5_Witness ==
  /\ dmn.submitted = <<"p1", "p2", "p3">>
  /\ dmn.uploaded = <<"p1", "p2", "p3">>
  /\ srv.started = <<"a", "b", "c">>
  /\ srv.finished = <<"a", "b", "c">>
  /\ fsize["p1"] = payloadSize + TailLen

StateOf(s) == <<s.name, s.size, s.seqNum>>

\* A step of the server that ends a session with an error.
ErrorReturn ==
  /\ srv.pc \in {"recvStart", "recvData"}
  /\ srv'.pc = "accept"
  /\ srv'.ret = "err"

\* C11: the server's (name, size, seqNum) changes only from idle to
\* (offer.name, offer.size, 0), by seqNum + 1 after a block that was
\* acknowledged, or to idle when seqNum reaches numBlocks(size); a step
\* that ends a session with an error (decode, write, encode) neither
\* resets nor decreases seqNum and keeps the name and size of a transfer
\* in progress.
C11_StatePreserved ==
  [][/\ \/ StateKept
        \/ /\ srv.name = ""
           /\ \E m \in OfferSet :
                OfferStep(m) /\ StateOf(srv') = <<m.name, m.size, 0>>
        \/ /\ srv.name # ""
           /\ <<srv.name, srv.seqNum>> \in srv'.acked
           /\ srv.seqNum + 1 < getNumBlocks(srv.size)
           /\ StateOf(srv') = <<srv.name, srv.size, srv.seqNum + 1>>
        \/ /\ srv.name # ""
           /\ \/ /\ <<srv.name, srv.seqNum>> \in srv'.acked
                 /\ srv.seqNum + 1 = getNumBlocks(srv.size)
              \/ srv.seqNum = getNumBlocks(srv.size)
           /\ srv'.ret = "nil"
           /\ StateOf(srv') = <<"", 0, 0>>
     /\ ErrorReturn =>
          /\ srv'.seqNum >= srv.seqNum
          /\ srv.name # "" => (srv'.name = srv.name /\ srv'.size = srv.size)]_vars

C11_Witness ==
  /\ srv.pc = "accept"
  /\ srv.ret = "err"
  /\ fail.wr < MaxWriteFails
  /\ StateOf(srv) = <<"a", payloadSize + TailLen, 1>>

\* A step of Send that runs cleanup(conn) after a failed session.
RetryStep ==
  /\ cli.pc \in {"sendStart", "recvAck", "recvDataAck", "progress"}
  /\ cli'.pc = "dial"

\* C12 (as claimed): within one call of Send the wait before the first
\* retry is 200ms, every later wait is min(2 * previous, maxRetryTime),
\* and no wait exceeds maxRetryTime.
C12_BackoffBound ==
  [][RetryStep =>
       /\ cli'.wait = IF cli.wait = 0 THEN initRetryTime
                                      ELSE Min(2 * cli.wait, maxRetryTime)
       /\ cli'.wait <= maxRetryTime]_vars

\* C13 (as claimed): when Dial returns an error the retry loop runs
\* cleanup to completion (close, sleep for retryTime, doubling) and dials
\* again; the uploader neither terminates nor crashes.
C13_DialErrorRetry ==
  [][(cli.pc = "dial" /\ cli' # cli /\ cli'.pc # "sendStart") =>
       /\ cli'.pc = "dial"
       /\ cli'.wait = cli.retryTime
       /\ cli'.retryTime = NextRetryTime(cli.retryTime)]_vars

\* C14: in every state of the daemon at most one uploader goroutine is in
\* flight (spawned, and its value on the done channel not yet received by
\* the director).
C14_SingleUploader == dmn.uploaders <= 1

C14_Witness ==
  /\ dmn.uploaders = 1
  /\ Len(dmn.uploaded) = 1
  /\ Len(dmn.queue) = 2
  /\ cli.pc = "recvDataAck"

\* C16: whenever an uploader is in flight, the path it uploads is the head
\* of the director's queue; an entry leaves the queue only as its head,
\* when the director receives done for its upload, and every other change
\* of the queue is a push at the back.
C16_QueueHead ==
  /\ [](dmn.uploaders > 0 => (dmn.queue # <<>> /\ cli.fpath = Head(dmn.queue)))
  /\ [][dmn'.queue # dmn.queue =>
          \/ \E p \in Paths : dmn'.queue = Append(dmn.queue, p)
          \/ /\ dmn.queue # <<>>
             /\ dmn'.queue = Tail(dmn.queue)
             /\ cli.pc = "done"
             /\ cli.fpath = Head(dmn.queue)
             /\ dmn'.uploaded = Append(dmn.uploaded, Head(dmn.queue))]_vars

C16_Witness ==
  /\ dmn.uploaders = 1
  /\ dmn.uploaded = <<"p1">>
  /\ dmn.queue = <<"p2", "p3">>
  /\ cli.fpath = "p2"
  /\ cli.pc = "progress"

\* The connections whose server end a running recv holds.
InSession == {c \in ConnIds : conns[c].srvEnd /\ c \notin Range(backlog)}

InRecv(s) == s.pc \in {"recvStart", "recvData"}

\* C15: Serve runs at most one receive session at a time; when a session
\* returns, with or without an error, Serve is back at Accept and takes
\* the next connection; Serve returns only when Accept fails because the
\* listener was closed.
C15_AcceptLoop ==
  /\ [](/\ Cardinality(InSession) <= 1
        /\ InRecv(srv) => InSession = {srv.conn}
        /\ (srv.pc = "accept" /\ srv.listening /\ backlog # <<>>) => ENABLED SrvAccept)
  /\ [][/\ (InRecv(srv) /\ ~InRecv(srv')) =>
             (srv'.pc = "accept" /\ srv'.ret \in {"nil", "err"})
        /\ (srv'.pc = "returned" /\ srv.pc # "returned") =>
             (srv.pc = "accept" /\ ~srv.listening)]_vars

C15_Witness ==
  /\ srv.pc = "recvStart"
  /\ srv.ret = "err"
  /\ srv.name = "a"
  /\ srv.seqNum = 1
  /\ Len(srv.finished) = 0

\* Every byte position of [lo, hi) lies in an extent written to file f.
InExtent(f, b) == \E e \in f.ext : e.pos <= b /\ b < e.pos + e.data.len

Covers(f, lo, hi) ==
  \A b \in {lo} \cup {e.pos + e.data.len : e \in f.ext} :
    (lo <= b /\ b < hi) => InExtent(f, b)

\* C17 (as claimed): whenever the server's state.name is not empty, the
\* file of that name exists in the archive directory and every byte
\* position below min(state.seqNum * payloadSize, state.size) was written
\* by a block write of this transfer.
C17_PrefixWritten ==
  srv.name # "" =>
    /\ archive[srv.name].exists
    /\ Covers(archive[srv.name], 0, Min(srv.seqNum * payloadSize, srv.size))
    /\ \A i \in 0..(srv.seqNum - 1) :
         i * payloadSize < srv.size => <<srv.name, i * payloadSize>> \in srv.written

\* The messages the server's step appends for the client on connection c.
SentBy(c) ==
  IF Len(conns'[c].s2c) > Len(conns[c].s2c)
    THEN {conns'[c].s2c[Len(conns'[c].s2c)]}
    ELSE {}

\* C18: the server sends DataAck(k) only in a pass of the block loop that
\* has written block k at file position k * payloadSize; a pass whose
\* write fails sends no DataAck and leaves seqNum as it was; and a block
\* is written only when the block before it has been written.
C18_WriteBeforeAck ==
  [][/\ \A c \in ConnIds : \A m \in SentBy(c) :
          m.type = "dataAck" =>
            /\ srv.pc = "recvData"
            /\ m.seqNum = srv.seqNum
            /\ <<srv.name, m.seqNum * payloadSize>> \in srv'.written
            /\ LET d == Head(conns[srv.conn].c2s).data
               IN d.len > 0 =>
                    [pos |-> m.seqNum * payloadSize, data |-> d]
                      \in archive'[srv.name].ext
     /\ srv'.acked # srv.acked =>
          \A x \in srv'.acked \ srv.acked :
            <<x[1], x[2] * payloadSize>> \in srv'.written
     /\ fail'.wr < fail.wr =>
          /\ srv'.seqNum = srv.seqNum
          /\ srv'.acked = srv.acked
          /\ srv'.written = srv.written
          /\ archive' = archive
          /\ \A c \in ConnIds : SentBy(c) = {}
     /\ \A x \in srv'.written \ srv.written :
          x[2] = 0 \/ <<x[1], x[2] - payloadSize>> \in srv.written]_vars

C18_Witness ==
  /\ fail.wr < MaxWriteFails
  /\ srv.acked = {<<"a", 0>>, <<"a", 1>>}
  /\ srv.written = {<<"a", 0>>, <<"a", payloadSize>>}
  /\ cli.pc = "recvDataAck"
  /\ conns[cli.conn].s2c = <<dataAckMessage(1)>>

\* The DataBlock the client's step puts on its connection, if any.
DataSent ==
  IF cli.conn # 0 /\ Len(conns'[cli.conn].c2s) > Len(conns[cli.conn].c2s)
    THEN {m \in {conns'[cli.conn].c2s[Len(conns'[cli.conn].c2s)]} : IsData(m)}
    ELSE {}

\* C19: every DataBlock the server receives carries the server's
\* state.seqNum of that moment, so it is written at
\* filePos(DataBlock.seqNum); in a session the client's first DataBlock
\* carries the ResumeAck's seqNum and each later one the seqNum of the one
\* before plus 1.
C19_SequenceAgreement ==
  /\ [](\A c \in ConnIds :
          (srv.pc = "recvData" /\ c = srv.conn /\ conns[c].c2s # <<>>
             /\ IsData(Head(conns[c].c2s))) =>
            Head(conns[c].c2s).seqNum = srv.seqNum)
  /\ [][/\ \A m \in DataSent :
             /\ cli.pc = "recvAck" => m.seqNum = Head(conns[cli.conn].s2c).seqNum
             /\ cli.pc = "progress" =>
                  m.seqNum = cli.emitted[Len(cli.emitted)].seqNum + 1
             /\ cli.pc \in {"recvAck", "progress"}
        /\ \A x \in srv'.written \ srv.written :
             x[2] = Head(conns[srv.conn].c2s).seqNum * payloadSize]_vars

C19_Witness ==
  /\ srv.pc = "recvData"
  /\ srv.reply.seqNum = 1
  /\ srv.seqNum = 1
  /\ conns[srv.conn].c2s = <<dataMessage(1, ReadBlock("p1", 0, fsize["p1"]))>>
  /\ cli.conn = srv.conn

\* C20: a StartOffer with size 0 and a fresh name that reaches the idle
\* server makes it create the empty file, answer ResumeAck{Success,
\* seqNum 0} and return to idle in the same session without receiving a
\* DataBlock; the client that reads this ResumeAck returns success at once
\* and sends no DataBlock.
C20_ZeroSize ==
  [][/\ \A m \in OfferSet :
          (OfferStep(m) /\ m.size = 0 /\ m.name # "" /\ srv.name = ""
             /\ ~fileExists(m.name) /\ CanOpen(m.name)) =>
            /\ archive' = [archive EXCEPT ![m.name] = EmptyFile]
            /\ SentBy(srv.conn) = {ackMessage(m.name, 0, 0, ErrSuccess)}
            /\ srv'.pc = "accept"
            /\ srv'.ret = "nil"
            /\ StateOf(srv') = <<"", 0, 0>>
            /\ srv'.finished = Append(srv.finished, m.name)
            /\ srv'.written = srv.written
     /\ (cli.pc = "recvAck" /\ cli'.pc # "recvAck" /\ fsize[cli.fpath] = 0) =>
          /\ cli'.pc = "done"
          /\ DataSent = {}
          /\ cli'.emitted = <<>>
          /\ archive[BaseName(cli.fpath)] = EmptyFile]_vars

C20_Witness ==
  /\ cli.pc = "done"
  /\ cli.fpath = "p2"
  /\ fsize["p2"] = 0
  /\ cli.emitted = <<>>
  /\ archive["b"] = EmptyFile
  /\ srv.finished = <<"a", "b">>
  /\ srv.pc = "accept"

\* The transfer state the server acts on when it answers offer m with
\* answer r: the state the offer has just initialised, or the one it found.
StateAtAck(m, r) ==
  IF srv.name = "" /\ r.errType = ErrSuccess
    THEN <<m.name, m.size>>
    ELSE <<srv.name, srv.size>>

\* C21 (as claimed): every ResumeAck the server sends, Success or error,
\* carries the name and size of the transfer in progress, and an empty
\* name and size 0 exactly when the server is idle.
C21_ResumeAckEcho ==
  [][\A m \in OfferSet :
       (OfferStep(m) /\ srv'.reply.type = "ack" /\ srv'.offer = m) =>
         /\ <<srv'.reply.name, srv'.reply.size>> = StateAtAck(m, srv'.reply)
         /\ (srv'.reply.name = "" /\ srv'.reply.size = 0)
              <=> StateAtAck(m, srv'.reply)[1] = ""]_vars

\* C22: a call of Stop that finds stopped false and sends on the unbuffered
\* stop channel after the director has left its loop blocks forever: while
\* it waits with no director left, no step ever moves it or revives the
\* director.
C22_StopBlocksForever ==
  [][\A i \in StopIds :
       (dmn.stops[i] = "send" /\ dmn.dirPc = "exited") =>
         (dmn'.stops[i] = "send" /\ dmn'.dirPc = "exited")]_vars

\* A first call of Stop has returned, the director has exited, and a second
\* call is waiting to send on the stop channel.
C22_Witness ==
  \E i, j \in StopIds :
    /\ dmn.stops[i] \in {"mark", "done"}
    /\ dmn.stops[j] = "send"
    /\ dmn.dirPc = "exited"

\* C24: in every reachable state of the director an uploader is in flight
\* if and only if the queue is non-empty; so whenever the director receives
\* on done the queue is non-empty and its front is the entry popped, and
\* the director never dereferences a nil queue.Front().
C24_UploaderQueueCoupling ==
  /\ [](dmn.uploaders > 0 <=> dmn.queue # <<>>)
  /\ [](dmn.dirPc # "panic")
  /\ [][(cli.pc = "done" /\ cli'.pc # "done") =>
          (dmn.queue # <<>> /\ dmn'.queue = Tail(dmn.queue))]_vars

\* The director has received on done twice and an uploader of the third
\* path is in flight.
C24_Witness ==
  /\ Len(dmn.uploaded) = 2
  /\ Len(dmn.queue) = 1
  /\ dmn.uploaders = 1

\* C23: when the client's send returns success for a file whose name was
\* never offered with another size, the server has written and acknowledged
\* every block in [0, numBlocks(size)) of that name and has completed the
\* transfer; and the step of the server that completes a transfer leaves
\* its state idle without another message, so that no offer of a different
\* name is then rejected with WrongFile.
C23_SuccessImpliesCompletion ==
  /\ []((cli.pc = "done" /\ ~peer.resized) =>
          LET name == BaseName(cli.fpath)
          IN /\ Finished(name)
             /\ \A i \in 0..(getNumBlocks(fsize[cli.fpath]) - 1) :
                  /\ <<name, i>> \in srv.acked
                  /\ <<name, getFilePos(i)>> \in srv.written
             /\ archive[name].exists
             /\ Covers(archive[name], 0, fsize[cli.fpath]))
  /\ [][srv'.finished # srv.finished =>
          /\ StateOf(srv') = <<"", 0, 0>>
          /\ srv'.pc = "accept"
          /\ \A n \in Names : OfferCheck(n, srv'.name) # ErrWrongFile]_vars

\* The client's send has returned success for a file of MaxBlocks blocks
\* after a session of it was cut, with a peer's offers in between.
C23_Witness ==
  /\ cli.pc = "done"
  /\ ~peer.resized
  /\ peer.left < MaxProbes
  /\ fail.crash + fail.brk < MaxCrashes + MaxBreaks
  /\ getNumBlocks(fsize[cli.fpath]) = MaxBlocks
  /\ Finished(BaseName(cli.fpath))

\* Stop has been called once, on a daemon whose Serve had listened.
StoppedOnce ==
  /\ dmn.stops[1] \in {"send", "mark", "done"}
  /\ \A i \in StopIds \ {1} : dmn.stops[i] = "idle"

StoppedAgain == \E i \in StopIds \ {1} : dmn.stops[i] # "idle"

\* handleConn waits at "d.newFiles <- fpath" and the director has returned.
HandlerBlocked == dmn.servePc = "handle" /\ dmn.dirPc = "exited"

\* An uploader waits at "done <- Send(...)" and the director has returned.
UploaderBlocked == dmn.uploaders > 0 /\ cli.pc = "done" /\ dmn.dirPc = "exited"

\* C25 (as claimed): after Stop has been called once on a serving daemon
\* (and never again), Serve eventually returns, and from some point on no
\* goroutine is blocked on newFiles or on done: a path decoded by
\* handleConn is enqueued or its handler returns, and an uploader in flight
\* hands its result to the director.
C25_DaemonShutdown ==
  /\ StoppedOnce ~> (StoppedAgain \/ dmn.servePc = "returned")
  /\ StoppedOnce ~> (StoppedAgain \/ [](~HandlerBlocked /\ ~UploaderBlocked))

====
